---- MODULE Spec2Model ----
(***************************************************************************)
(* Coordination primitives of react-19-vite-template:                      *)
(*   WorkerChannel        (demo2 request/response channel to a Worker)     *)
(*   TransferChannel      (demo3 channel with clone / transfer modes)      *)
(*   RefreshManager       (single-flight token refresh coordinator)        *)
(*   RequestCancelManager (batch cancellation registry)                    *)
(* Each object is a record-valued variable; every method, timer callback   *)
(* and event handler is an operator from the object's state to its next    *)
(* state, and an action applies it atomically (JavaScript runs a handler   *)
(* to completion before the next one starts).                              *)
(***************************************************************************)
EXTENDS Integers, Sequences, FiniteSets, TLC

\* ------------------------------------------------------------------ bounds
\* number of request() calls explored on one WorkerChannel
MaxRequests == 2
\* number of send() calls that take an id on one TransferChannel
MaxSends == 2
\* number of distinct caller-side ArrayBuffers handed to send()
NumBuffers == 1
\* byteLength N of every caller-side ArrayBuffer when it is created
BufferSize == 3
\* number of startRefresh / waitRefresh calls explored on one RefreshManager
MaxCalls == 4
\* number of controllers handed to RequestCancelManager.add
MaxControllers == 2
\* number of flag resets scheduled by cancelAll that may be queued at once
MaxSweeps == 2
\* number of calls the application makes through the axios instance
MaxHttpCalls == 2
\* number of times one call may be handed to the network (first send + retries)
MaxDispatches == 3
\* number of request messages the demo2 worker is sent
MaxTasks == 2
\* DURATION_MS / SLICE_MS of a compute task, scaled down: slices of elapsed
\* time after which a compute task is complete
DurationSlices == 2

\* ------------------------------------------------------------------ state
VARIABLES
  wc,       \* the WorkerChannel object (fields, timers, settlement log)
  wcLast,   \* the last WorkerChannel entry point that ran, and its argument
  tc,       \* the TransferChannel object and the caller's buffers
  tcLast,   \* the last TransferChannel entry point that ran, and its arguments
  rm,       \* the RefreshManager object, its callers' futures and their tasks
  rmLast,   \* the last RefreshManager entry point that ran, and its caller
  rcm,      \* the RequestCancelManager object, the controllers, the microtask queue
  rcmLast,  \* the last RequestCancelManager entry point that ran, and its argument
  http,     \* the calls made through the axios instance, the tokens, the refresh POSTs
  httpLast, \* the last interceptor callback that ran, and its call
  dw,       \* the demo2 worker: its message queue, activeTasks, its compute tasks, its output
  dwLast    \* the last thing that happened at the demo2 worker, and its id

wcVars == <<wc, wcLast>>
tcVars == <<tc, tcLast>>
rmVars == <<rm, rmLast>>
rcmVars == <<rcm, rcmLast>>
httpVars == <<http, httpLast>>
dwVars == <<dw, dwLast>>
vars == <<wc, wcLast, tc, tcLast, rm, rmLast, rcm, rcmLast, http, httpLast, dw, dwLast>>
notWc == <<tcVars, rmVars, rcmVars, httpVars, dwVars>>
notTc == <<wcVars, rmVars, rcmVars, httpVars, dwVars>>
notRm == <<wcVars, tcVars, rcmVars, httpVars, dwVars>>
notRcm == <<wcVars, tcVars, rmVars, httpVars, dwVars>>
notHttp == <<wcVars, tcVars, dwVars>>
notDw == <<wcVars, tcVars, rmVars, rcmVars, httpVars>>

\* ========================================================= WorkerChannel ==
WcIds == 1..MaxRequests

\* one invocation of a promise's resolve / reject function
\*   fn  : "resolve" or "reject"
\*   why : which code path invoked it
\*   by  : id carried by the worker message that caused it (0: not a message)
Settle(fn, why, by) == [fn |-> fn, why |-> why, by |-> by]

\* messages the worker can post to the main thread (WorkerToMainMessage)
WcMessages ==
  {[type |-> "ready", id |-> 0, ok |-> TRUE]}
    \cup [type : {"progress"}, id : WcIds, ok : {TRUE}]
    \cup [type : {"response"}, id : WcIds, ok : BOOLEAN]

\* state right after the constructor returned
WorkerChannel_new ==
  [ requestId    |-> 1,
    pending      |-> {},                       \* keys of the pending Map
    timers       |-> {},                       \* ids whose setTimeout is armed
    calls        |-> [i \in WcIds |-> <<>>],   \* resolve/reject invocations per id
    progress     |-> [i \in WcIds |-> 0],      \* 1 once onProgress ran for the id
    readyFns     |-> TRUE,                     \* readyResolve/readyReject non-null
    readyTimer   |-> TRUE,                     \* readyTimeoutId armed
    readyCalls   |-> <<>>,                     \* resolve/reject invocations of ready
    workerAlive  |-> TRUE,                     \* worker.terminate() not yet called
    posted       |-> {<<"init", 0>>} ]         \* messages given to worker.postMessage

clearReadyTimeout(s) ==
  IF ~s.readyTimer THEN s ELSE [s EXCEPT !.readyTimer = FALSE]

\* variant: failReady without the readyReject guard
failReady_unguarded(s, why) ==
  LET c == clearReadyTimeout(s) IN
  [c EXCEPT !.readyCalls = Append(@, Settle("reject", why, 0)),
            !.readyFns = FALSE]

failReady(s, why) ==
  LET c == clearReadyTimeout(s) IN
  IF ~c.readyFns THEN c
  ELSE [c EXCEPT !.readyCalls = Append(@, Settle("reject", why, 0)),
                 !.readyFns = FALSE]

rejectAllPending(s, why) ==
  [s EXCEPT !.timers = @ \ s.pending,
            !.calls = [i \in WcIds |->
                         IF i \in s.pending
                         THEN Append(s.calls[i], Settle("reject", why, 0))
                         ELSE s.calls[i]],
            !.pending = {}]

\* request(): the id is taken from the counter, the timer armed, the entry
\* registered and the message posted, all before the call returns
WorkerChannel_request(s) ==
  LET id == s.requestId IN
  [s EXCEPT !.requestId = id + 1,
            !.timers = @ \cup {id},
            !.pending = @ \cup {id},
            !.posted = @ \cup {<<"request", id>>}]

\* variant: the timer callback rejects but leaves the entry in the Map
WorkerChannel_requestTimeout_keepsEntry(s, id) ==
  [s EXCEPT !.timers = @ \ {id},
            !.calls[id] = Append(@, Settle("reject", "timeout", 0))]

\* the setTimeout callback created by request() for this id
WorkerChannel_requestTimeout(s, id) ==
  [s EXCEPT !.timers = @ \ {id},
            !.pending = @ \ {id},
            !.calls[id] = Append(@, Settle("reject", "timeout", 0))]

\* variant: cancel() without clearTimeout
WorkerChannel_cancel_keepsTimer(s, id) ==
  IF id \notin s.pending THEN s
  ELSE [s EXCEPT !.pending = @ \ {id},
                 !.calls[id] = Append(@, Settle("reject", "cancelled", 0)),
                 !.posted = @ \cup {<<"cancel", id>>}]

\* variant: cancel() only notifies the worker and lets its reply settle the request
WorkerChannel_cancel_waitsForWorker(s, id) ==
  IF id \notin s.pending THEN s
  ELSE [s EXCEPT !.posted = @ \cup {<<"cancel", id>>}]

\* variant: cancel() without the early return notifies the worker for any id
WorkerChannel_cancel_alwaysPosts(s, id) ==
  IF id \notin s.pending THEN [s EXCEPT !.posted = @ \cup {<<"cancel", id>>}]
  ELSE [s EXCEPT !.timers = @ \ {id},
                 !.pending = @ \ {id},
                 !.calls[id] = Append(@, Settle("reject", "cancelled", 0)),
                 !.posted = @ \cup {<<"cancel", id>>}]

WorkerChannel_cancel(s, id) ==
  IF id \notin s.pending THEN s
  ELSE [s EXCEPT !.timers = @ \ {id},
                 !.pending = @ \ {id},
                 !.calls[id] = Append(@, Settle("reject", "cancelled", 0)),
                 !.posted = @ \cup {<<"cancel", id>>}]

WorkerChannel_terminate(s) ==
  LET a == clearReadyTimeout(s)
      b == failReady(a, "terminated")
      c == rejectAllPending(b, "terminated")
  IN [c EXCEPT !.workerAlive = FALSE]

\* variant: a response settles the oldest pending request, whatever its id
WorkerChannel_handleMessage_oldestFirst(s, m) ==
  IF m.type = "ready" THEN
    LET c == clearReadyTimeout(s) IN
    [c EXCEPT !.readyCalls = IF c.readyFns THEN Append(@, Settle("resolve", "ready", 0)) ELSE @,
              !.readyFns = FALSE]
  ELSE IF m.type = "progress" THEN
    IF m.id \in s.pending THEN [s EXCEPT !.progress[m.id] = 1] ELSE s
  ELSE IF s.pending = {} THEN s
  ELSE LET k == CHOOSE i \in s.pending : \A j \in s.pending : i <= j IN
       [s EXCEPT !.timers = @ \ {k},
                 !.pending = @ \ {k},
                 !.calls[k] = Append(@, IF m.ok THEN Settle("resolve", "response", m.id)
                                                ELSE Settle("reject", "error", m.id))]

\* variant: the progress branch runs the callback of any request and
\* disarms the request's timer
WorkerChannel_handleMessage_progressClearsTimer(s, m) ==
  IF m.type = "ready" THEN
    LET c == clearReadyTimeout(s) IN
    [c EXCEPT !.readyCalls = IF c.readyFns THEN Append(@, Settle("resolve", "ready", 0)) ELSE @,
              !.readyFns = FALSE]
  ELSE IF m.type = "progress" THEN
    [s EXCEPT !.progress[m.id] = 1, !.timers = @ \ {m.id}]
  ELSE IF m.id \notin s.pending THEN s
  ELSE [s EXCEPT !.timers = @ \ {m.id},
                 !.pending = @ \ {m.id},
                 !.calls[m.id] = Append(@, IF m.ok THEN Settle("resolve", "response", m.id)
                                                   ELSE Settle("reject", "error", m.id))]

WorkerChannel_handleMessage(s, m) ==
  IF m.type = "ready" THEN
    LET c == clearReadyTimeout(s) IN
    [c EXCEPT !.readyCalls = IF c.readyFns THEN Append(@, Settle("resolve", "ready", 0)) ELSE @,
              !.readyFns = FALSE]
  ELSE IF m.type = "progress" THEN
    IF m.id \in s.pending THEN [s EXCEPT !.progress[m.id] = 1] ELSE s
  ELSE IF m.id \notin s.pending THEN s
  ELSE [s EXCEPT !.timers = @ \ {m.id},
                 !.pending = @ \ {m.id},
                 !.calls[m.id] = Append(@, IF m.ok THEN Settle("resolve", "response", m.id)
                                                   ELSE Settle("reject", "error", m.id))]

\* the setTimeout callback created by the constructor
WorkerChannel_readyTimeout(s) == failReady([s EXCEPT !.readyTimer = FALSE], "handshake-timeout")

\* variant: a fault only fails the handshake and leaves the requests waiting
WorkerChannel_onerror_readyOnly(s) == failReady(s, "worker-failed")

WorkerChannel_onerror(s) == failReady(rejectAllPending(s, "worker-failed"), "worker-failed")

WorkerChannel_onmessageerror(s) == failReady(rejectAllPending(s, "worker-failed"), "worker-failed")

\* ---- actions
WcLast(op, id) == [op |-> op, id |-> id]

WcRequest ==
  /\ wc.requestId <= MaxRequests
  /\ wc' = WorkerChannel_request(wc)
  /\ wcLast' = WcLast("request", wc.requestId)
  /\ UNCHANGED notWc

WcRequestTimeout ==
  \E id \in wc.timers :
    /\ wc' = WorkerChannel_requestTimeout(wc, id)
    /\ wcLast' = WcLast("timeout", id)
    /\ UNCHANGED notWc

WcCancel ==
  \E id \in WcIds :
    /\ wc' = WorkerChannel_cancel(wc, id)
    /\ wcLast' = WcLast("cancel", id)
    /\ UNCHANGED notWc

WcTerminate ==
  /\ wc' = WorkerChannel_terminate(wc)
  /\ wcLast' = WcLast("terminate", 0)
  /\ UNCHANGED notWc

\* a message from the worker reaches worker.onmessage: the ready reply to
\* init, or progress / response for a request the worker was sent.  Nothing
\* is delivered once worker.terminate() has run.
WcDeliver ==
  \E m \in WcMessages :
    /\ wc.workerAlive
    /\ m.type # "ready" => <<"request", m.id>> \in wc.posted
    /\ wc' = WorkerChannel_handleMessage(wc, m)
    /\ wcLast' = WcLast(IF m.type = "response" /\ ~m.ok THEN "response-error" ELSE m.type, m.id)
    /\ UNCHANGED notWc

WcReadyTimeout ==
  /\ wc.readyTimer
  /\ wc' = WorkerChannel_readyTimeout(wc)
  /\ wcLast' = WcLast("ready-timeout", 0)
  /\ UNCHANGED notWc

WcError ==
  /\ wc.workerAlive
  /\ wc' = WorkerChannel_onerror(wc)
  /\ wcLast' = WcLast("onerror", 0)
  /\ UNCHANGED notWc

WcMessageError ==
  /\ wc.workerAlive
  /\ wc' = WorkerChannel_onmessageerror(wc)
  /\ wcLast' = WcLast("onmessageerror", 0)
  /\ UNCHANGED notWc

InitWC ==
  /\ wc = WorkerChannel_new
  /\ wcLast = WcLast("new", 0)

NextWC ==
  \/ WcRequest
  \/ WcRequestTimeout
  \/ WcCancel
  \/ WcTerminate
  \/ WcDeliver
  \/ WcReadyTimeout
  \/ WcError
  \/ WcMessageError


\* ======================================================= TransferChannel ==
TcIds == 1..MaxSends
Buffers == 1..NumBuffers
TransferModes == {"clone", "transfer"}

\* one invocation of resolve / reject of a send() promise; for a resolve,
\* seen is ProcessResult.byteLength and after is ProcessResult.bufferAfterSend
TcSettle(fn, why, by, mode, seen, after) ==
  [fn |-> fn, why |-> why, by |-> by, mode |-> mode, seen |-> seen, after |-> after]

TcReject(why) == TcSettle("reject", why, 0, "none", -1, -1)

\* result messages the demo3 worker can post: byteLength is what it received
TcMessages ==
  {[type |-> "ready", id |-> 0, byteLength |-> 0]}
    \cup [type : {"result"}, id : TcIds, byteLength : 0..(BufferSize + 1)]

TransferChannel_new ==
  [ isTerminated |-> FALSE,
    requestId    |-> 1,
    pending      |-> {},                        \* keys of the _pending Map
    entry        |-> [i \in TcIds |-> [mode |-> "none", buf |-> 0]],  \* mode, bufferRef
    timers       |-> {},
    calls        |-> [i \in TcIds |-> <<>>],
    readyFns     |-> TRUE,
    readyTimer   |-> TRUE,
    readyCalls   |-> <<>>,
    workerAlive  |-> TRUE,                      \* _worker.terminate() not yet called
    handlers     |-> TRUE,                      \* onmessage / onerror / onmessageerror set
    posted       |-> {<<"init", 0, 0>>},        \* <<type, id, byteLength received>>
    bufLen       |-> [b \in Buffers |-> BufferSize],  \* caller-side buffer.byteLength
    ret          |-> "none" ]                   \* what the last send() returned

TransferChannel_settleReady(s, status, why) ==
  [s EXCEPT !.readyTimer = FALSE,
            !.readyCalls = IF s.readyFns THEN Append(@, Settle(status, why, 0)) ELSE @,
            !.readyFns = FALSE]

\* variant: the entries are rejected but the Map is not cleared
TransferChannel_rejectAllPending_noClear(s, why) ==
  [s EXCEPT !.timers = @ \ s.pending,
            !.calls = [i \in TcIds |->
                         IF i \in s.pending THEN Append(s.calls[i], TcReject(why))
                         ELSE s.calls[i]]]

TransferChannel_rejectAllPending(s, why) ==
  [s EXCEPT !.timers = @ \ s.pending,
            !.calls = [i \in TcIds |->
                         IF i \in s.pending THEN Append(s.calls[i], TcReject(why))
                         ELSE s.calls[i]],
            !.pending = {}]

\* postMessage throws DataCloneError when the ArrayBuffer is detached, both
\* when it is cloned and when it is named in the transfer list
PostThrows(s, b) == s.bufLen[b] = 0

\* variant: 'transfer' mode posts without the transfer list
TransferChannel_send_noTransferList(s, b, mode) ==
  IF s.isTerminated THEN [s EXCEPT !.ret = "rejected:CHANNEL_TERMINATED"]
  ELSE
    LET id == s.requestId
        reg == [s EXCEPT !.requestId = id + 1,
                         !.timers = @ \cup {id},
                         !.pending = @ \cup {id},
                         !.entry[id] = [mode |-> mode, buf |-> b],
                         !.ret = "promise"]
    IN IF PostThrows(reg, b)
       THEN [reg EXCEPT !.timers = @ \ {id},
                        !.pending = @ \ {id},
                        !.calls[id] = Append(@, TcReject("SEND_FAILED"))]
       ELSE [reg EXCEPT !.posted = @ \cup {<<"process", id, reg.bufLen[b]>>}]

\* variant: the catch block rejects but leaves the timer and the entry
TransferChannel_send_catchKeepsEntry(s, b, mode) ==
  IF s.isTerminated THEN [s EXCEPT !.ret = "rejected:CHANNEL_TERMINATED"]
  ELSE
    LET id == s.requestId
        reg == [s EXCEPT !.requestId = id + 1,
                         !.timers = @ \cup {id},
                         !.pending = @ \cup {id},
                         !.entry[id] = [mode |-> mode, buf |-> b],
                         !.ret = "promise"]
    IN IF PostThrows(reg, b)
       THEN [reg EXCEPT !.calls[id] = Append(@, TcReject("SEND_FAILED"))]
       ELSE [reg EXCEPT !.posted = @ \cup {<<"process", id, reg.bufLen[b]>>},
                        !.bufLen[b] = IF mode = "transfer" THEN 0 ELSE @]

\* variant: send() without the _isTerminated guard
TransferChannel_send_noTerminatedGuard(s, b, mode) ==
  LET id == s.requestId
      reg == [s EXCEPT !.requestId = id + 1,
                       !.timers = @ \cup {id},
                       !.pending = @ \cup {id},
                       !.entry = [i \in TcIds |-> IF i = id THEN [mode |-> mode, buf |-> b] ELSE @[i]],
                       !.ret = "promise"]
  IN IF PostThrows(reg, b)
     THEN [reg EXCEPT !.timers = @ \ {id},
                      !.pending = @ \ {id},
                      !.calls = [i \in TcIds |-> IF i = id THEN Append(@[i], TcReject("SEND_FAILED")) ELSE @[i]]]
     ELSE [reg EXCEPT !.posted = @ \cup {<<"process", id, reg.bufLen[b]>>},
                      !.bufLen[b] = IF mode = "transfer" THEN 0 ELSE @]

TransferChannel_send(s, b, mode) ==
  IF s.isTerminated THEN [s EXCEPT !.ret = "rejected:CHANNEL_TERMINATED"]
  ELSE
    LET id == s.requestId
        reg == [s EXCEPT !.requestId = id + 1,
                         !.timers = @ \cup {id},
                         !.pending = @ \cup {id},
                         !.entry[id] = [mode |-> mode, buf |-> b],
                         !.ret = "promise"]
    IN IF PostThrows(reg, b)
       THEN [reg EXCEPT !.timers = @ \ {id},
                        !.pending = @ \ {id},
                        !.calls[id] = Append(@, TcReject("SEND_FAILED"))]
       ELSE [reg EXCEPT !.posted = @ \cup {<<"process", id, reg.bufLen[b]>>},
                        !.bufLen[b] = IF mode = "transfer" THEN 0 ELSE @]

\* the setTimeout callback created by send() for this id
TransferChannel_sendTimeout(s, id) ==
  [s EXCEPT !.timers = @ \ {id},
            !.pending = @ \ {id},
            !.calls[id] = Append(@, TcReject("REQUEST_TIMEOUT"))]

TransferChannel_terminate(s) ==
  IF s.isTerminated THEN s
  ELSE LET a == [s EXCEPT !.isTerminated = TRUE]
           b == TransferChannel_settleReady(a, "reject", "CHANNEL_TERMINATED")
           c == TransferChannel_rejectAllPending(b, "CHANNEL_TERMINATED")
       IN [c EXCEPT !.handlers = FALSE, !.workerAlive = FALSE]

TransferChannel_handleMessage(s, m) ==
  IF s.isTerminated THEN s
  ELSE IF m.type = "ready" THEN TransferChannel_settleReady(s, "resolve", "ready")
  ELSE IF m.id \notin s.pending THEN s
  ELSE [s EXCEPT !.timers = @ \ {m.id},
                 !.pending = @ \ {m.id},
                 !.calls[m.id] = Append(@, TcSettle("resolve", "result", m.id,
                                                    s.entry[m.id].mode, m.byteLength,
                                                    s.bufLen[s.entry[m.id].buf]))]

\* the setTimeout callback created by the constructor
TransferChannel_readyTimeout(s) == TransferChannel_settleReady(s, "reject", "READY_FAILED")

TransferChannel_onerror(s) ==
  IF s.isTerminated THEN s
  ELSE TransferChannel_settleReady(TransferChannel_rejectAllPending(s, "WORKER_FAILED"),
                                   "reject", "READY_FAILED")

TransferChannel_onmessageerror(s) ==
  IF s.isTerminated THEN s
  ELSE TransferChannel_settleReady(TransferChannel_rejectAllPending(s, "WORKER_FAILED"),
                                   "reject", "READY_FAILED")

\* ---- actions
TcLast(op, id) == [op |-> op, id |-> id]

TcSend ==
  \E b \in Buffers, mode \in TransferModes :
    /\ tc.isTerminated \/ tc.requestId <= MaxSends
    /\ tc' = TransferChannel_send(tc, b, mode)
    /\ tcLast' = TcLast("send", IF tc.isTerminated THEN 0 ELSE tc.requestId)
    /\ UNCHANGED notTc

TcSendTimeout ==
  \E id \in tc.timers :
    /\ tc' = TransferChannel_sendTimeout(tc, id)
    /\ tcLast' = TcLast("timeout", id)
    /\ UNCHANGED notTc

TcTerminate ==
  /\ tc' = TransferChannel_terminate(tc)
  /\ tcLast' = TcLast("terminate", 0)
  /\ UNCHANGED notTc

\* a message from the worker reaches _worker.onmessage while the handler is
\* attached: ready, or the result of a process message it was sent, carrying
\* the byteLength it received
TcDeliver ==
  \E m \in TcMessages :
    /\ tc.handlers /\ tc.workerAlive
    /\ m.type = "result" => <<"process", m.id, m.byteLength>> \in tc.posted
    /\ tc' = TransferChannel_handleMessage(tc, m)
    /\ tcLast' = TcLast(m.type, m.id)
    /\ UNCHANGED notTc

TcReadyTimeout ==
  /\ tc.readyTimer
  /\ tc' = TransferChannel_readyTimeout(tc)
  /\ tcLast' = TcLast("ready-timeout", 0)
  /\ UNCHANGED notTc

TcError ==
  /\ tc.handlers /\ tc.workerAlive
  /\ tc' = TransferChannel_onerror(tc)
  /\ tcLast' = TcLast("onerror", 0)
  /\ UNCHANGED notTc

TcMessageError ==
  /\ tc.handlers /\ tc.workerAlive
  /\ tc' = TransferChannel_onmessageerror(tc)
  /\ tcLast' = TcLast("onmessageerror", 0)
  /\ UNCHANGED notTc

InitTC ==
  /\ tc = TransferChannel_new
  /\ tcLast = TcLast("new", 0)

NextTC ==
  \/ TcSend
  \/ TcSendTimeout
  \/ TcTerminate
  \/ TcDeliver
  \/ TcReadyTimeout
  \/ TcError
  \/ TcMessageError

\* ======================================================== RefreshManager ==
\* Every startRefresh / waitRefresh call takes the next caller slot; the
\* slot holds the future the call returned and, for the call that owns a
\* refresh cycle, the state of its task.
Callers == 1..MaxCalls

RmSettle(fn, why) == [fn |-> fn, why |-> why]

RefreshManager_new ==
  [ refreshing    |-> FALSE,                       \* _refreshing
    cancelled     |-> FALSE,                       \* _cancelled
    waitResolvers |-> <<>>,                        \* _waitResolvers, by caller
    waitRejectors |-> <<>>,                        \* _waitRejectors, by caller
    next          |-> 1,                           \* next caller slot
    kind          |-> [c \in Callers |-> "none"],  \* "start" / "wait"
    calls         |-> [c \in Callers |-> <<>>],    \* resolve/reject invocations of the caller's future
    drained       |-> <<>>,                        \* callers the last forEach invoked, in invocation order
    cancelSeen    |-> {},                          \* owners whose task was running when cancel() was called
    task          |-> [c \in Callers |-> "none"] ] \* "running", "ok" / "fail" (settled, awaited), "done"

\* the set of elements of a sequence
RangeOf(q) == {q[k] : k \in 1..Len(q)}

\* fns.forEach(fn => fn(..)): invoke the settle function of every queued caller
InvokeAll(calls, q, outcome) ==
  [c \in Callers |->
     IF c \in RangeOf(q)
     THEN calls[c] \o [k \in 1..Cardinality({j \in 1..Len(q) : q[j] = c}) |-> outcome]
     ELSE calls[c]]

\* variant: cancel() only sets the flag and leaves the waiters to the task's end
RefreshManager_cancel_lazy(s) ==
  [s EXCEPT !.cancelled = TRUE,
            !.cancelSeen = @ \cup {c \in Callers : s.task[c] = "running"}]

\* variant: cancel() empties the arrays without invoking the rejectors
RefreshManager_cancel_dropsWaiters(s) ==
  [s EXCEPT !.cancelled = TRUE,
            !.cancelSeen = @ \cup {c \in Callers : s.task[c] = "running"},
            !.drained = <<>>,
            !.waitResolvers = <<>>,
            !.waitRejectors = <<>>]

RefreshManager_cancel(s) ==
  [s EXCEPT !.cancelled = TRUE,
            !.cancelSeen = @ \cup {c \in Callers : s.task[c] = "running"},
            !.calls = InvokeAll(s.calls, s.waitRejectors, RmSettle("reject", "Refresh cancelled")),
            !.drained = s.waitRejectors,
            !.waitResolvers = <<>>,
            !.waitRejectors = <<>>]

\* variant: reset() also clears the in-flight flag
RefreshManager_reset_clearsInFlight(s) == [s EXCEPT !.cancelled = FALSE, !.refreshing = FALSE]

RefreshManager_reset(s) == [s EXCEPT !.cancelled = FALSE]

\* variant: waitRefresh puts the new callbacks at the head of the arrays
RefreshManager_waitRefresh_unshift(s, c) ==
  LET t == [s EXCEPT !.next = c + 1, !.kind[c] = "wait"] IN
  IF s.cancelled
  THEN [t EXCEPT !.calls[c] = Append(@, RmSettle("reject", "Refresh cancelled"))]
  ELSE [t EXCEPT !.waitResolvers = <<c>> \o @,
                 !.waitRejectors = <<c>> \o @]

RefreshManager_waitRefresh(s, c) ==
  LET t == [s EXCEPT !.next = c + 1, !.kind[c] = "wait"] IN
  IF s.cancelled
  THEN [t EXCEPT !.calls[c] = Append(@, RmSettle("reject", "Refresh cancelled"))]
  ELSE [t EXCEPT !.waitResolvers = Append(@, c),
                 !.waitRejectors = Append(@, c)]

\* variant: _refreshing is set only after the task has been awaited
RefreshManager_startRefresh_lateFlag(s, c) ==
  LET t == [s EXCEPT !.next = c + 1, !.kind[c] = "start"] IN
  IF s.refreshing THEN [t EXCEPT !.calls[c] = Append(@, RmSettle("resolve", "undefined"))]
  ELSE IF s.cancelled
  THEN [t EXCEPT !.calls[c] = Append(@, RmSettle("reject", "Refresh cancelled"))]
  ELSE [t EXCEPT !.task[c] = "running"]

\* startRefresh up to its await: the guards, the flag, the call of task()
RefreshManager_startRefresh(s, c) ==
  LET t == [s EXCEPT !.next = c + 1, !.kind[c] = "start"] IN
  IF s.refreshing THEN [t EXCEPT !.calls[c] = Append(@, RmSettle("resolve", "undefined"))]
  ELSE IF s.cancelled
  THEN [t EXCEPT !.calls[c] = Append(@, RmSettle("reject", "Refresh cancelled"))]
  ELSE [t EXCEPT !.refreshing = TRUE, !.task[c] = "running"]

\* the catch block of startRefresh
RefreshManager_startRefresh_catch(s, c, err) ==
  [s EXCEPT !.refreshing = FALSE,
            !.calls = [InvokeAll(s.calls, s.waitRejectors, RmSettle("reject", err))
                         EXCEPT ![c] = Append(@, RmSettle("reject", err))],
            !.drained = s.waitRejectors,
            !.waitResolvers = <<>>,
            !.waitRejectors = <<>>]

\* variant: the failure path resolves the queued callers
RefreshManager_startRefresh_resume_failResolves(s, c) ==
  LET t == [s EXCEPT !.task[c] = "done"] IN
  IF s.task[c] = "ok" THEN
    IF t.cancelled
    THEN RefreshManager_startRefresh_catch(
           [t EXCEPT !.refreshing = FALSE, !.waitResolvers = <<>>, !.waitRejectors = <<>>],
           c, "Refresh cancelled after completion")
    ELSE [t EXCEPT !.refreshing = FALSE,
                   !.calls = [InvokeAll(t.calls, t.waitResolvers, RmSettle("resolve", "refreshed"))
                                EXCEPT ![c] = Append(@, RmSettle("resolve", "refreshed"))],
                   !.drained = t.waitResolvers,
                   !.waitResolvers = <<>>,
                   !.waitRejectors = <<>>]
  ELSE [t EXCEPT !.refreshing = FALSE,
                 !.calls = [InvokeAll(t.calls, t.waitResolvers, RmSettle("resolve", "refreshed"))
                              EXCEPT ![c] = Append(@, RmSettle("reject", "task failed"))],
                 !.drained = t.waitResolvers,
                 !.waitResolvers = <<>>,
                 !.waitRejectors = <<>>]

\* startRefresh after its await, once the task's promise has settled
RefreshManager_startRefresh_resume(s, c) ==
  LET t == [s EXCEPT !.task[c] = "done"] IN
  IF s.task[c] = "ok" THEN
    IF t.cancelled
    THEN RefreshManager_startRefresh_catch(
           [t EXCEPT !.refreshing = FALSE, !.waitResolvers = <<>>, !.waitRejectors = <<>>],
           c, "Refresh cancelled after completion")
    ELSE [t EXCEPT !.refreshing = FALSE,
                   !.calls = [InvokeAll(t.calls, t.waitResolvers, RmSettle("resolve", "refreshed"))
                                EXCEPT ![c] = Append(@, RmSettle("resolve", "refreshed"))],
                   !.drained = t.waitResolvers,
                   !.waitResolvers = <<>>,
                   !.waitRejectors = <<>>]
  ELSE RefreshManager_startRefresh_catch(t, c, "task failed")

\* ---- actions
RmLast(op, c) == [op |-> op, c |-> c]

\* no refresh cycle has run to its end yet
FirstCycleOpen == \A c \in Callers : rm.task[c] # "done"

RmStartRefresh ==
  /\ rm.next <= MaxCalls
  /\ rm' = RefreshManager_startRefresh(rm, rm.next)
  /\ rmLast' = RmLast("startRefresh", rm.next)
  /\ UNCHANGED notRm

RmWaitRefresh ==
  /\ rm.next <= MaxCalls
  /\ rm' = RefreshManager_waitRefresh(rm, rm.next)
  /\ rmLast' = RmLast("waitRefresh", rm.next)
  /\ UNCHANGED notRm

RmCancel ==
  /\ rm' = RefreshManager_cancel(rm)
  /\ rmLast' = RmLast("cancel", 0)
  /\ UNCHANGED notRm

RmReset ==
  /\ rm' = RefreshManager_reset(rm)
  /\ rmLast' = RmLast("reset", 0)
  /\ UNCHANGED notRm

\* the promise returned by task() settles, fulfilled or rejected
RmTaskSettles ==
  \E c \in Callers, ok \in BOOLEAN :
    /\ rm.task[c] = "running"
    /\ rm' = [rm EXCEPT !.task[c] = IF ok THEN "ok" ELSE "fail"]
    /\ rmLast' = RmLast(IF ok THEN "task-ok" ELSE "task-fail", c)
    /\ UNCHANGED notRm

\* the continuation of startRefresh runs
RmResume ==
  \E c \in Callers :
    /\ rm.task[c] \in {"ok", "fail"}
    /\ rm' = RefreshManager_startRefresh_resume(rm, c)
    /\ rmLast' = RmLast("resume", c)
    /\ UNCHANGED notRm

\* the calls of a burst of concurrent callers: made before the first cycle ends
RmBurstStartRefresh == FirstCycleOpen /\ RmStartRefresh

RmBurstWaitRefresh == FirstCycleOpen /\ RmWaitRefresh

InitRM ==
  /\ rm = RefreshManager_new
  /\ rmLast = RmLast("new", 0)

NextRM ==
  \/ RmStartRefresh
  \/ RmWaitRefresh
  \/ RmCancel
  \/ RmReset
  \/ RmTaskSettles
  \/ RmResume

NextSingleFlight ==
  \/ RmBurstStartRefresh
  \/ RmBurstWaitRefresh
  \/ RmTaskSettles
  \/ RmResume

\* ================================================== RequestCancelManager ==
Urls == {"/a", "/b"}
Controllers == 1..MaxControllers

RequestCancelManager_new ==
  [ pending      |-> {},      \* _pending: set of [url, controller]
    isCancelling |-> FALSE,   \* _isCancelling
    resets       |-> 0,       \* queued Promise.resolve().then callbacks of cancelAll
    aborted      |-> {},      \* controllers whose abort() was called
    next         |-> 1,       \* next fresh AbortController
    swept        |-> FALSE ]  \* cancelAll ran in the current synchronous turn

RequestCancelManager_add(s, url, controller) ==
  LET t == [s EXCEPT !.next = controller + 1] IN
  IF s.isCancelling
  THEN [t EXCEPT !.aborted = @ \cup {controller}]
  ELSE [t EXCEPT !.pending = @ \cup {[url |-> url, controller |-> controller]}]

RequestCancelManager_remove(s, controller) ==
  [s EXCEPT !.pending = {e \in @ : e.controller # controller}]

\* variant: the flag is cleared at the end of cancelAll itself
RequestCancelManager_cancelAll_syncReset(s) ==
  [s EXCEPT !.isCancelling = FALSE,
            !.aborted = @ \cup {e.controller : e \in s.pending},
            !.pending = {},
            !.swept = TRUE]

\* variant: cancelAll never schedules the reset of the flag
RequestCancelManager_cancelAll_noReset(s) ==
  [s EXCEPT !.isCancelling = TRUE,
            !.aborted = @ \cup {e.controller : e \in s.pending},
            !.pending = {},
            !.swept = TRUE]

RequestCancelManager_cancelAll(s) ==
  [s EXCEPT !.isCancelling = TRUE,
            !.aborted = @ \cup {e.controller : e \in s.pending},
            !.pending = {},
            !.resets = @ + 1,
            !.swept = TRUE]

\* the microtask scheduled by cancelAll
RequestCancelManager_cancelAll_then(s) ==
  [s EXCEPT !.isCancelling = FALSE, !.resets = @ - 1, !.swept = FALSE]

RequestCancelManager_getPendingUrls(s) == {e.url : e \in s.pending}

RequestCancelManager_getPendingCount(s) == Cardinality(s.pending)

\* ---- actions
RcmLast(op, arg) == [op |-> op, arg |-> arg]

RcmAdd ==
  \E url \in Urls :
    /\ rcm.next <= MaxControllers
    /\ rcm' = RequestCancelManager_add(rcm, url, rcm.next)
    /\ rcmLast' = RcmLast("add", rcm.next)
    /\ UNCHANGED notRcm

RcmRemove ==
  \E controller \in 1..(rcm.next - 1) :
    /\ rcm' = RequestCancelManager_remove(rcm, controller)
    /\ rcmLast' = RcmLast("remove", controller)
    /\ UNCHANGED notRcm

RcmCancelAll ==
  /\ rcm.resets < MaxSweeps
  /\ rcm' = RequestCancelManager_cancelAll(rcm)
  /\ rcmLast' = RcmLast("cancelAll", 0)
  /\ UNCHANGED notRcm

\* the current synchronous turn ends and a reset scheduled by cancelAll runs
RcmRunReset ==
  /\ rcm.resets > 0
  /\ rcm' = RequestCancelManager_cancelAll_then(rcm)
  /\ rcmLast' = RcmLast("reset", 0)
  /\ UNCHANGED notRcm

\* the current synchronous turn ends and a callback queued before the
\* resets starts the next turn
RcmTurnEnds ==
  /\ rcm.swept
  /\ rcm' = [rcm EXCEPT !.swept = FALSE]
  /\ rcmLast' = RcmLast("turn", 0)
  /\ UNCHANGED notRcm

InitRCM ==
  /\ rcm = RequestCancelManager_new
  /\ rcmLast = RcmLast("new", 0)

NextRCM ==
  \/ RcmAdd
  \/ RcmRemove
  \/ RcmCancelAll
  \/ RcmRunReset
  \/ RcmTurnEnds

\* ================================================ RequestInstantFactory ==
\* The axios instance with its request and response interceptors, using the
\* module-level refreshManager (rm) and requestCancelManager (rcm).
HttpCalls == 1..MaxHttpCalls

\* config.url of a call
UrlOf(c) == IF c = 1 THEN "/a" ELSE "/b"

\* controller.signal: the AbortSignal of a controller, an object that is not
\* the controller
SignalOf(controller) == 0 - controller

\* state right after the constructor returned, with an access token and a
\* refresh token in localStorage
RequestInstantFactory_new ==
  [ phase           |-> [c \in HttpCalls |-> "idle"],  \* "sent", "waiting" (in an await), "settled"
    attempts        |-> [c \in HttpCalls |-> <<>>],    \* per dispatch: token sent, status answered (0: none yet)
    controller      |-> [c \in HttpCalls |-> 0],       \* the AbortController of the current dispatch
    slot            |-> [c \in HttpCalls |-> 0],       \* the refreshManager future the handler awaits
    role            |-> [c \in HttpCalls |-> "none"],  \* awaiting "waitRefresh" or "startRefresh"
    result          |-> [c \in HttpCalls |-> "none"],  \* "ok" / "rejected": how the call's promise settled
    token           |-> 0,                             \* access_token in localStorage: 0 the initial one, n after the n-th refresh, -1 none
    hasRefreshToken |-> TRUE,                          \* refresh_token in localStorage
    posts           |-> <<>> ]                         \* axios.post(/auth/refresh) calls: the call and dispatch that caused each

\* the objects an interceptor callback works on
HttpEnv == [rm |-> rm, rmLast |-> rmLast, rcm |-> rcm, rcmLast |-> rcmLast, http |-> http]

Rejected(e, c) == [e EXCEPT !.http.phase[c] = "settled", !.http.result[c] = "rejected"]

\* the request interceptor, then the config is handed to the network
RequestInterceptor(e, c) ==
  IF e.rcm.isCancelling THEN Rejected(e, c)
  ELSE LET controller == e.rcm.next IN
       [e EXCEPT !.rcm = RequestCancelManager_add(@, UrlOf(c), controller),
                 !.rcmLast = RcmLast("add", controller),
                 !.http.phase[c] = "sent",
                 !.http.controller[c] = controller,
                 !.http.attempts[c] = Append(@, [token |-> e.http.token, status |-> 0])]

\* requestCancelManager.remove(config.signal as unknown as AbortController)
RemoveBySignal(e, c) ==
  [e EXCEPT !.rcm = RequestCancelManager_remove(@, SignalOf(e.http.controller[c])),
            !.rcmLast = RcmLast("remove", SignalOf(e.http.controller[c]))]

\* the response interceptor's success callback
ResponseInterceptor_fulfilled(e, c) ==
  [RemoveBySignal(e, c) EXCEPT !.http.phase[c] = "settled", !.http.result[c] = "ok"]

\* the response interceptor's error callback up to its await; status 0 is a
\* request that was aborted (axios.isCancel)
ResponseInterceptor_rejected(e, c, status) ==
  LET a == RemoveBySignal(e, c)
      slot == a.rm.next
  IN IF status = 0 THEN Rejected(a, c)
     ELSE IF status = 401 THEN
       IF a.rm.cancelled THEN Rejected(a, c)
       ELSE IF a.rm.refreshing THEN
         [a EXCEPT !.rm = RefreshManager_waitRefresh(@, slot),
                   !.rmLast = RmLast("waitRefresh", slot),
                   !.http.phase[c] = "waiting",
                   !.http.slot[c] = slot,
                   !.http.role[c] = "waitRefresh"]
       ELSE
         LET started == RefreshManager_startRefresh(a.rm, slot)
             b == [a EXCEPT !.rmLast = RmLast("startRefresh", slot),
                            !.http.phase[c] = "waiting",
                            !.http.slot[c] = slot,
                            !.http.role[c] = "startRefresh"]
         IN IF a.http.hasRefreshToken
            THEN [b EXCEPT !.rm = started,
                           !.http.posts = Append(@, [by |-> c, attempt |-> Len(a.http.attempts[c])])]
            ELSE [b EXCEPT !.rm = [started EXCEPT !.task[slot] = "fail"]]
     ELSE Rejected(a, c)

\* the error callback after its await: retry the original config when the
\* awaited future resolved, reject the call when it rejected
ResponseInterceptor_resume(e, c) ==
  IF e.rm.calls[e.http.slot[c]][1].fn = "resolve" THEN RequestInterceptor(e, c)
  ELSE IF e.http.role[c] = "startRefresh"
  THEN [Rejected(e, c) EXCEPT !.http.token = 0 - 1, !.http.hasRefreshToken = FALSE]
  ELSE Rejected(e, c)

\* ---- actions
HttpLast(op, c) == [op |-> op, c |-> c]

Becomes(e) ==
  /\ rm' = e.rm
  /\ rmLast' = e.rmLast
  /\ rcm' = e.rcm
  /\ rcmLast' = e.rcmLast
  /\ http' = e.http

\* the application makes a call through the instance
HttpRequest ==
  \E c \in HttpCalls :
    /\ http.phase[c] = "idle"
    /\ Becomes(RequestInterceptor(HttpEnv, c))
    /\ httpLast' = HttpLast("request", c)
    /\ UNCHANGED notHttp

\* the server answers the dispatch in flight of a call
HttpResponse ==
  \E c \in HttpCalls, status \in {200, 401, 500} :
    /\ http.phase[c] = "sent"
    /\ http.controller[c] \notin rcm.aborted
    /\ status = 401 => rm.next <= MaxCalls
    /\ LET e == [HttpEnv EXCEPT !.http.attempts[c][Len(http.attempts[c])].status = status]
       IN Becomes(IF status = 200 THEN ResponseInterceptor_fulfilled(e, c)
                                  ELSE ResponseInterceptor_rejected(e, c, status))
    /\ httpLast' = HttpLast("response", c)
    /\ UNCHANGED notHttp

\* the refresh endpoint answers the POST of the running task: on success the
\* task stores the new tokens and its promise fulfils, otherwise it rejects
HttpRefreshResponse ==
  \E slot \in Callers, ok \in BOOLEAN :
    /\ rm.task[slot] = "running"
    /\ rm' = [rm EXCEPT !.task[slot] = IF ok THEN "ok" ELSE "fail"]
    /\ rmLast' = RmLast(IF ok THEN "task-ok" ELSE "task-fail", slot)
    /\ http' = IF ok THEN [http EXCEPT !.token = Len(http.posts), !.hasRefreshToken = TRUE]
                     ELSE http
    /\ httpLast' = HttpLast("refresh-response", 0)
    /\ UNCHANGED <<rcmVars, notHttp>>

\* the error callback of a call continues after the future it awaited settled
HttpResume ==
  \E c \in HttpCalls :
    /\ http.phase[c] = "waiting"
    /\ rm.calls[http.slot[c]] # <<>>
    /\ rm.calls[http.slot[c]][1].fn = "resolve" => Len(http.attempts[c]) < MaxDispatches
    /\ Becomes(ResponseInterceptor_resume(HttpEnv, c))
    /\ httpLast' = HttpLast("resume", c)
    /\ UNCHANGED notHttp

InitHttp ==
  /\ http = RequestInstantFactory_new
  /\ httpLast = HttpLast("new", 0)

NextHttp ==
  \/ HttpRequest
  \/ HttpResponse
  \/ HttpRefreshResponse
  \/ RmResume
  \/ HttpResume

\* ========================================================= demo2 worker ==
\* The worker script behind a WorkerChannel.  Its event loop runs one
\* callback at a time: the onmessage handler for the oldest queued message,
\* or the setTimeout(0) continuation of a compute task that yielded.
TaskIds == 1..MaxTasks
WorkerActions == {"compute", "echo"}

\* a message the main thread posts (MainToWorkerMessage); during is the set
\* of compute tasks that were running when it was posted
DwMessage(type, id, action, during) ==
  [type |-> type, id |-> id, action |-> action, during |-> during]

\* state when the script has been evaluated and the channel's constructor
\* has posted init
Demo2Worker_new ==
  [ inbox       |-> <<DwMessage("init", 0, "none", {})>>,  \* queued message events, oldest first
    nextId      |-> 1,                                 \* id of the next request the main thread posts
    cancelled   |-> {},                                \* ids the main thread has posted cancel for
    activeTasks |-> {},                                \* activeTasks
    yielded     |-> {},                                \* compute tasks awaiting their setTimeout(0)
    action      |-> [i \in TaskIds |-> "none"],        \* action of the request received for the id
    start       |-> [i \in TaskIds |-> 0],             \* performance.now() at the start of processCompute
    now         |-> 0,                                 \* performance.now(), in slices
    ready       |-> 0,                                 \* ready messages posted
    progress    |-> [i \in TaskIds |-> 0],             \* progress messages posted for the id
    responses   |-> [i \in TaskIds |-> <<>>] ]         \* ok of the response messages posted for the id

\* the rest of onmessage after `await processCompute(id)`: post the response
Demo2Worker_respond(s, id, status) ==
  [s EXCEPT !.responses[id] = Append(@, status = "ok")]

\* variant: the loop has no cancellation checkpoint
processCompute_iterate_noCheckpoint(s, id) ==
  LET a == [s EXCEPT !.now = @ + 1, !.progress[id] = @ + 1] IN
  IF a.now - a.start[id] >= DurationSlices
  THEN Demo2Worker_respond([a EXCEPT !.activeTasks = @ \ {id}, !.yielded = @ \ {id}],
                           id, "ok")
  ELSE [a EXCEPT !.yielded = @ \cup {id}]

\* variant: a cancelled task returns without a response being posted
processCompute_iterate_silentCancel(s, id) ==
  IF id \notin s.activeTasks
  THEN [s EXCEPT !.yielded = @ \ {id}]
  ELSE LET a == [s EXCEPT !.now = @ + 1, !.progress[id] = @ + 1] IN
       IF a.now - a.start[id] >= DurationSlices
       THEN Demo2Worker_respond([a EXCEPT !.activeTasks = @ \ {id}, !.yielded = @ \ {id}],
                                id, "ok")
       ELSE [a EXCEPT !.yielded = @ \cup {id}]

\* variant: the loop never yields, the task runs all its slices in one go
processCompute_iterate_noYield(s, id) ==
  IF id \notin s.activeTasks
  THEN Demo2Worker_respond([s EXCEPT !.yielded = @ \ {id}], id, "cancelled")
  ELSE LET left == IF s.start[id] + DurationSlices > s.now + 1
                   THEN s.start[id] + DurationSlices - s.now ELSE 1
       IN Demo2Worker_respond([s EXCEPT !.now = @ + left,
                                        !.progress[id] = @ + left,
                                        !.activeTasks = @ \ {id},
                                        !.yielded = @ \ {id}], id, "ok")

\* one pass of the while loop of processCompute from its checkpoint: return
\* 'cancelled', or burn a slice, post progress and either finish or yield
processCompute_iterate(s, id) ==
  IF id \notin s.activeTasks
  THEN Demo2Worker_respond([s EXCEPT !.yielded = @ \ {id}], id, "cancelled")
  ELSE LET a == [s EXCEPT !.now = @ + 1, !.progress[id] = @ + 1] IN
       IF a.now - a.start[id] >= DurationSlices
       THEN Demo2Worker_respond([a EXCEPT !.activeTasks = @ \ {id}, !.yielded = @ \ {id}],
                                id, "ok")
       ELSE [a EXCEPT !.yielded = @ \cup {id}]

\* processCompute up to its first await or return
processCompute(s, id) ==
  processCompute_iterate([s EXCEPT !.start[id] = s.now, !.activeTasks = @ \cup {id}], id)

\* self.onmessage for one message event, up to its first await or return
Demo2Worker_onmessage(s, msg) ==
  IF msg.type = "init" THEN [s EXCEPT !.ready = @ + 1]
  ELSE IF msg.type = "cancel" THEN [s EXCEPT !.activeTasks = @ \ {msg.id}]
  ELSE LET a == [s EXCEPT !.action[msg.id] = msg.action] IN
       IF msg.action = "compute" THEN processCompute(a, msg.id)
       ELSE Demo2Worker_respond(a, msg.id, "ok")

\* ---- actions
DwLast(op, id) == [op |-> op, id |-> id]

\* the main thread posts a request (WorkerChannel.request, ids in order)
DwPostRequest ==
  \E action \in WorkerActions :
    /\ dw.nextId <= MaxTasks
    /\ dw' = [dw EXCEPT !.inbox = Append(@, DwMessage("request", dw.nextId, action, dw.yielded)),
                        !.nextId = @ + 1]
    /\ dwLast' = DwLast("post-request", dw.nextId)
    /\ UNCHANGED notDw

\* the main thread posts a cancel (WorkerChannel.cancel: at most once per
\* id, after the request)
DwPostCancel ==
  \E id \in 1..(dw.nextId - 1) :
    /\ id \notin dw.cancelled
    /\ dw' = [dw EXCEPT !.inbox = Append(@, DwMessage("cancel", id, "none", dw.yielded)),
                        !.cancelled = @ \cup {id}]
    /\ dwLast' = DwLast("post-cancel", id)
    /\ UNCHANGED notDw

\* the event loop takes the oldest message event and runs self.onmessage
DwOnMessage ==
  /\ dw.inbox # <<>>
  /\ dw' = Demo2Worker_onmessage([dw EXCEPT !.inbox = Tail(@)], Head(dw.inbox))
  /\ dwLast' = DwLast(Head(dw.inbox).type, Head(dw.inbox).id)
  /\ UNCHANGED notDw

\* the event loop runs the setTimeout(0) callback of a task that yielded
DwTimer ==
  \E id \in dw.yielded :
    /\ dw' = processCompute_iterate(dw, id)
    /\ dwLast' = DwLast("timer", id)
    /\ UNCHANGED notDw

InitDw ==
  /\ dw = Demo2Worker_new
  /\ dwLast = DwLast("new", 0)

NextDw ==
  \/ DwPostRequest
  \/ DwPostCancel
  \/ DwOnMessage
  \/ DwTimer

\* ------------------------------------------------------- specifications
Init == InitWC /\ InitTC /\ InitRM /\ InitRCM /\ InitHttp /\ InitDw

\* one WorkerChannel, driven by its caller, its timers and its worker
SpecWC == Init /\ [][NextWC]_vars

\* one TransferChannel, driven by its caller, its timers and its worker
SpecTC == Init /\ [][NextTC]_vars

\* one RefreshManager under any interleaving of its four methods
SpecRM == Init /\ [][NextRM]_vars

\* one RefreshManager, idle and not cancelled, hit by a burst of
\* startRefresh / waitRefresh calls before its first cycle ends
SpecSingleFlight == Init /\ [][NextSingleFlight]_vars

\* one RequestCancelManager
SpecRCM == Init /\ [][NextRCM]_vars

\* one RequestCancelManager whose queued microtasks do run: the reset that
\* cancelAll schedules with Promise.resolve().then is not postponed forever
SpecRCMFair == Init /\ [][NextRCM]_vars /\ WF_vars(RcmRunReset)

\* the demo2 worker under any order of message events and timer callbacks
SpecDw == Init /\ [][NextDw]_vars

\* the demo2 worker whose event loop leaves no runnable callback waiting
\* forever: queued message events and due timers are eventually run
SpecDwFair == Init /\ [][NextDw]_vars /\ WF_vars(DwOnMessage) /\ WF_vars(DwTimer)

\* the axios instance with the shared refreshManager and
\* requestCancelManager, driven by the application's calls and the server's
\* answers; nobody calls cancel() or cancelAll()
SpecHttp == Init /\ [][NextHttp]_vars

\* one channel of either class.  The two classes share no state, so what
\* holds of each channel run alone holds of any number of them interleaved;
\* a behaviour here runs the WorkerChannel or the TransferChannel.
WcOnly == tc = TransferChannel_new /\ tcLast = TcLast("new", 0)
TcOnly == wc = WorkerChannel_new /\ wcLast = WcLast("new", 0)

NextChannel ==
  \/ WcOnly /\ WcRequest
  \/ WcOnly /\ WcRequestTimeout
  \/ WcOnly /\ WcCancel
  \/ WcOnly /\ WcTerminate
  \/ WcOnly /\ WcDeliver
  \/ WcOnly /\ WcReadyTimeout
  \/ WcOnly /\ WcError
  \/ WcOnly /\ WcMessageError
  \/ TcOnly /\ TcSend
  \/ TcOnly /\ TcSendTimeout
  \/ TcOnly /\ TcTerminate
  \/ TcOnly /\ TcDeliver
  \/ TcOnly /\ TcReadyTimeout
  \/ TcOnly /\ TcError
  \/ TcOnly /\ TcMessageError

SpecChannel == Init /\ [][NextChannel]_vars

\* -------------------------------------------------- WorkerChannel claims
WcResponseStep(i) ==
  wcLast' = WcLast("response", i) \/ wcLast' = WcLast("response-error", i)

\* C1: for every request id, resolve/reject is invoked at most once, and once
\* it has been invoked no later event (response, timeout, cancel, terminate,
\* worker fault) changes the outcome of that id.
C1_SettledAtMostOnce ==
  [][\A i \in WcIds :
       /\ Len(wc'.calls[i]) <= 1
       /\ wc.calls[i] # <<>> =>
            /\ wc'.calls[i] = wc.calls[i]
            /\ i \notin wc'.pending
            /\ i \notin wc'.timers]_vars

\* two requests settled by different paths, then terminate() ran over them
C1_Witness ==
  /\ MaxRequests >= 2
  /\ wc.calls[1] = <<Settle("reject", "cancelled", 0)>>
  /\ wc.calls[2] = <<Settle("resolve", "response", 2)>>
  /\ wcLast = WcLast("terminate", 0)

\* C2: a request is resolved or rejected by a response message only if the
\* message carries the request's own id, in whatever order responses arrive.
C2_NoCrossTalk ==
  \A i \in WcIds : \A k \in 1..Len(wc.calls[i]) :
     wc.calls[i][k].why \in {"response", "error"} => wc.calls[i][k].by = i

\* request 2 answered while the older request 1 is still outstanding
C2_Witness ==
  /\ MaxRequests >= 2
  /\ 1 \in wc.pending
  /\ wc.calls[1] = <<>>
  /\ wc.calls[2] = <<Settle("resolve", "response", 2)>>

\* C6: cancel(id) on a pending id rejects it as cancelled in the same step,
\* removes it from the pending map, clears its timer and posts a cancel
\* message for it; a response for that id delivered later changes nothing.
C6_CancelPending ==
  [][\A i \in WcIds :
       /\ (wcLast' = WcLast("cancel", i) /\ i \in wc.pending) =>
            wc' = [wc EXCEPT !.calls[i] = <<Settle("reject", "cancelled", 0)>>,
                             !.pending = @ \ {i},
                             !.timers = @ \ {i},
                             !.posted = @ \cup {<<"cancel", i>>}]
       /\ (WcResponseStep(i) /\ wc.calls[i] = <<Settle("reject", "cancelled", 0)>>) =>
            wc' = wc]_vars

\* a response arrives for a request that was cancelled while pending
C6_Witness ==
  \E i \in WcIds :
    /\ wc.calls[i] = <<Settle("reject", "cancelled", 0)>>
    /\ <<"cancel", i>> \in wc.posted
    /\ wcLast = WcLast("response", i)

\* C7: cancel(id) with an id that is not pending (never issued, or already
\* settled) changes no field of the channel and posts nothing.
C7_CancelAbsentIsNoOp ==
  [][\A i \in WcIds :
       (wcLast' = WcLast("cancel", i) /\ i \notin wc.pending) => wc' = wc]_vars

\* cancel(2) with id 2 never issued, after request 1 was answered and
\* cancel(1) had already been tried on it
C7_Witness ==
  /\ MaxRequests >= 2
  /\ wc.requestId = 2
  /\ wc.calls[1] = <<Settle("resolve", "response", 1)>>
  /\ <<"cancel", 1>> \notin wc.posted
  /\ wcLast = WcLast("cancel", 2)

\* C8: when the timer of a request fires the request is rejected with the
\* timeout error and removed from the pending map, nothing else changes;
\* a response for that id delivered afterwards changes nothing.
C8_TimeoutThenLateResponse ==
  [][\A i \in WcIds :
       /\ wcLast' = WcLast("timeout", i) =>
            wc' = [wc EXCEPT !.calls[i] = <<Settle("reject", "timeout", 0)>>,
                             !.pending = @ \ {i},
                             !.timers = @ \ {i}]
       /\ (WcResponseStep(i) /\ wc.calls[i] = <<Settle("reject", "timeout", 0)>>) =>
            wc' = wc]_vars

\* a late response is delivered for a request that timed out
C8_Witness ==
  \E i \in WcIds :
    /\ wc.calls[i] = <<Settle("reject", "timeout", 0)>>
    /\ wc.workerAlive
    /\ wcLast = WcLast("response", i)

\* C10: a request() made after terminate() is rejected as terminated without
\* registering a pending entry, arming a timer or posting a message.
C10_RequestAfterTerminateFailsFast ==
  [][(wcLast' = WcLast("request", wc.requestId) /\ ~wc.workerAlive) =>
       /\ wc'.calls[wc.requestId] = <<Settle("reject", "terminated", 0)>>
       /\ wc'.pending = wc.pending
       /\ wc'.timers = wc.timers
       /\ wc'.posted = wc.posted]_vars

\* C26: a progress message for a pending request runs only that request's
\* progress callback and leaves the request unsettled, in the pending map
\* and with its timer armed; a progress message for an id that is not
\* pending runs no callback and changes nothing.
C26_ProgressOnly ==
  [][\A i \in WcIds :
       wcLast' = WcLast("progress", i) =>
          IF i \in wc.pending
          THEN /\ wc' = [wc EXCEPT !.progress[i] = 1]
               /\ i \in wc'.pending /\ i \in wc'.timers /\ wc'.calls[i] = <<>>
          ELSE wc' = wc]_vars

\* progress arrived for request 1 while request 2 was pending too, and
\* later for the cancelled request 2
C26_Witness ==
  /\ MaxRequests >= 2
  /\ wcLast = WcLast("progress", 2)
  /\ wc.pending = {1}
  /\ wc.timers = {1}
  /\ wc.progress = [i \in WcIds |-> IF i = 1 THEN 1 ELSE 0]
  /\ wc.calls[1] = <<>>
  /\ wc.calls[2] = <<Settle("reject", "cancelled", 0)>>

\* --------------------------------------------------------- channel claims
\* C9: terminate() rejects every request pending at the call as terminated,
\* rejects ready if it was unsettled, leaves no pending entry, no armed
\* request timer and no armed handshake timer, and a terminate() run on the
\* state it produced changes nothing; on both channel classes.
C9_Terminate ==
  [][/\ wcLast' = WcLast("terminate", 0) =>
          /\ wc'.pending = {}
          /\ wc'.timers = {}
          /\ ~wc'.readyTimer
          /\ \A i \in WcIds :
               wc'.calls[i] = IF i \in wc.pending
                              THEN Append(wc.calls[i], Settle("reject", "terminated", 0))
                              ELSE wc.calls[i]
          /\ wc'.readyCalls = IF wc.readyCalls = <<>>
                              THEN <<Settle("reject", "terminated", 0)>>
                              ELSE wc.readyCalls
          /\ WorkerChannel_terminate(wc') = wc'
     /\ tcLast' = TcLast("terminate", 0) =>
          /\ tc'.pending = {}
          /\ tc'.timers = {}
          /\ ~tc'.readyTimer
          /\ \A i \in TcIds :
               tc'.calls[i] = IF i \in tc.pending
                              THEN Append(tc.calls[i], TcReject("CHANNEL_TERMINATED"))
                              ELSE tc.calls[i]
          /\ tc'.readyCalls = IF tc.readyCalls = <<>>
                              THEN <<Settle("reject", "CHANNEL_TERMINATED", 0)>>
                              ELSE tc.readyCalls
          /\ TransferChannel_terminate(tc') = tc']_vars

\* terminate() ran with two requests pending and the handshake unanswered
C9_Witness ==
  /\ MaxRequests >= 2
  /\ wcLast = WcLast("terminate", 0)
  /\ wc.calls[1] = <<Settle("reject", "terminated", 0)>>
  /\ wc.calls[2] = <<Settle("reject", "terminated", 0)>>
  /\ wc.readyCalls = <<Settle("reject", "terminated", 0)>>
  /\ wc.pending = {}

\* C11: a worker fault (onerror / onmessageerror) rejects every request
\* pending at that moment as worker-failed and nothing else, leaves the
\* pending map and the request timers empty, fails ready if it was still
\* unsettled, and neither terminates the worker nor posts anything to it
\* (no restart); on both channel classes.
C11_WorkerFault ==
  [][/\ wcLast' \in {WcLast("onerror", 0), WcLast("onmessageerror", 0)} =>
          /\ wc'.pending = {}
          /\ wc'.timers = {}
          /\ \A i \in WcIds :
               wc'.calls[i] = IF i \in wc.pending
                              THEN Append(wc.calls[i], Settle("reject", "worker-failed", 0))
                              ELSE wc.calls[i]
          /\ wc'.readyCalls = IF wc.readyCalls = <<>>
                              THEN <<Settle("reject", "worker-failed", 0)>>
                              ELSE wc.readyCalls
          /\ ~wc'.readyTimer
          /\ wc'.workerAlive = wc.workerAlive
          /\ wc'.posted = wc.posted
          /\ wc'.requestId = wc.requestId
     /\ tcLast' \in {TcLast("onerror", 0), TcLast("onmessageerror", 0)} =>
          /\ tc'.pending = {}
          /\ tc'.timers = {}
          /\ \A i \in TcIds :
               tc'.calls[i] = IF i \in tc.pending
                              THEN Append(tc.calls[i], TcReject("WORKER_FAILED"))
                              ELSE tc.calls[i]
          /\ tc'.readyCalls = IF tc.readyCalls = <<>>
                              THEN <<Settle("reject", "READY_FAILED", 0)>>
                              ELSE tc.readyCalls
          /\ ~tc'.readyTimer
          /\ tc'.workerAlive = tc.workerAlive
          /\ tc'.isTerminated = tc.isTerminated
          /\ tc'.posted = tc.posted
          /\ tc'.requestId = tc.requestId]_vars

\* onerror fired before the handshake ack with two requests pending
C11_Witness ==
  /\ MaxRequests >= 2
  /\ wcLast = WcLast("onerror", 0)
  /\ wc.calls[1] = <<Settle("reject", "worker-failed", 0)>>
  /\ wc.calls[2] = <<Settle("reject", "worker-failed", 0)>>
  /\ wc.readyCalls = <<Settle("reject", "worker-failed", 0)>>
  /\ wc.pending = {}
  /\ wc.workerAlive

\* C12: the ready future is settled at most once and never changes after it
\* was settled; it is resolved only by the handshake ack and rejected only by
\* the handshake timer, a worker fault or terminate(); on both channel
\* classes.
C12_ReadyMonotone ==
  [][/\ Len(wc'.readyCalls) <= 1
     /\ wc.readyCalls # <<>> => wc'.readyCalls = wc.readyCalls
     /\ (wc.readyCalls = <<>> /\ wc'.readyCalls # <<>>) =>
          IF wc'.readyCalls[1].fn = "resolve"
          THEN wcLast' = WcLast("ready", 0)
          ELSE wcLast'.op \in {"ready-timeout", "onerror", "onmessageerror", "terminate"}
     /\ Len(tc'.readyCalls) <= 1
     /\ tc.readyCalls # <<>> => tc'.readyCalls = tc.readyCalls
     /\ (tc.readyCalls = <<>> /\ tc'.readyCalls # <<>>) =>
          IF tc'.readyCalls[1].fn = "resolve"
          THEN tcLast' = TcLast("ready", 0)
          ELSE tcLast'.op \in {"ready-timeout", "onerror", "onmessageerror", "terminate"}]_vars

\* a fault hit a channel whose handshake had already been acknowledged
C12_Witness ==
  /\ wcLast = WcLast("onerror", 0)
  /\ wc.readyCalls = <<Settle("resolve", "ready", 0)>>

\* -------------------------------------------------- RefreshManager claims
RmRunning(s) == {c \in Callers : s.task[c] = "running"}
RmOwners(s) == {c \in Callers : s.task[c] # "none"}
RmUsed(s) == 1..(s.next - 1)

\* C3: at most one task body is executing at any time, and a startRefresh
\* call made while a task is in flight does not invoke its task.
C3_AtMostOneTask ==
  [][/\ Cardinality(RmRunning(rm')) <= 1
     /\ \A c \in Callers :
          (rmLast' = RmLast("startRefresh", c) /\ RmRunning(rm) # {}) =>
             /\ rm'.task[c] = "none"
             /\ rm'.task = rm.task]_vars

\* startRefresh called while another caller's task runs, after a cancel()
\* and a reset() in between
C3_Witness ==
  \E c \in Callers, d \in Callers :
    /\ c # d
    /\ rm.task[d] = "running"
    /\ rmLast = RmLast("startRefresh", c)
    /\ rm.task[c] = "none"
    /\ rm.calls[c] = <<RmSettle("resolve", "undefined")>>
    /\ \E w \in Callers : rm.calls[w] = <<RmSettle("reject", "Refresh cancelled")>>

\* every call of the burst has been made and its future has settled
RmAllSettled(s) ==
  /\ RmUsed(s) # {}
  /\ \A c \in RmUsed(s) : s.calls[c] # <<>>

\* C4 as written: once the futures of all K callers of a burst have settled,
\* the task has run exactly once and the K futures all succeeded or all failed.
C4_AllCallersSameOutcome ==
  RmAllSettled(rm) =>
    /\ Cardinality(RmOwners(rm)) = 1
    /\ \/ \A c \in RmUsed(rm) : rm.calls[c][1].fn = "resolve"
       \/ \A c \in RmUsed(rm) : rm.calls[c][1].fn = "reject"

\* C4 amended: in a burst the task runs at most once, exactly once when some
\* caller invoked startRefresh; when the cycle has ended its owner and every
\* waitRefresh caller have settled with one and the same outcome; a
\* startRefresh call that found the refresh in flight resolved at once with
\* undefined, whatever that outcome.
C4_OwnerAndWaitersSameOutcome ==
  /\ Cardinality(RmOwners(rm)) <= 1
  /\ (\E c \in RmUsed(rm) : rm.kind[c] = "start") => Cardinality(RmOwners(rm)) = 1
  /\ \A c \in RmUsed(rm) :
       (rm.kind[c] = "start" /\ rm.task[c] = "none") =>
          rm.calls[c] = <<RmSettle("resolve", "undefined")>>
  /\ (\E o \in Callers : rm.task[o] = "done") =>
       \E out \in {RmSettle("resolve", "refreshed"), RmSettle("reject", "task failed")} :
         \A c \in RmUsed(rm) :
           (rm.task[c] = "done" \/ rm.kind[c] = "wait") => rm.calls[c] = <<out>>

\* an owner, a waiter and a late startRefresh caller; the task failed
C4_Witness ==
  /\ MaxCalls >= 3
  /\ rm.kind[1] = "start" /\ rm.kind[2] = "wait" /\ rm.kind[3] = "start"
  /\ rm.task[1] = "done"
  /\ rm.calls[1] = <<RmSettle("reject", "task failed")>>
  /\ rm.calls[2] = <<RmSettle("reject", "task failed")>>
  /\ rm.calls[3] = <<RmSettle("resolve", "undefined")>>

\* the callers of a queue stand in the order in which their calls were made
InArrivalOrder(q) == \A i \in 1..Len(q), j \in 1..Len(q) : i < j => q[i] < q[j]

\* C13: when the continuation of startRefresh runs with _cancelled false, it
\* invokes the callback of every queued waiter exactly once and in arrival
\* order, resolving all of them when the task succeeded and rejecting all of
\* them with the error the owner's future is rejected with when it failed;
\* no other future is touched, the queue is empty and isRefreshing() is
\* false afterwards.
C13_DrainOnSettle ==
  [][\A c \in Callers :
       (rmLast' = RmLast("resume", c) /\ ~rm.cancelled) =>
         LET q == rm.waitResolvers
             out == IF rm.task[c] = "ok" THEN RmSettle("resolve", "refreshed")
                                         ELSE RmSettle("reject", "task failed")
         IN /\ rm.waitRejectors = q
            /\ InArrivalOrder(q)
            /\ rm'.drained = q
            /\ \A w \in RangeOf(q) : rm.calls[w] = <<>> /\ rm'.calls[w] = <<out>>
            /\ rm'.calls[c] = <<out>>
            /\ \A x \in Callers \ (RangeOf(q) \cup {c}) : rm'.calls[x] = rm.calls[x]
            /\ rm'.waitResolvers = <<>>
            /\ rm'.waitRejectors = <<>>
            /\ ~rm'.refreshing]_vars

\* the task of caller 1 failed with callers 2 and 3 queued, in that order
C13_Witness ==
  /\ MaxCalls >= 3
  /\ rmLast = RmLast("resume", 1)
  /\ rm.drained = <<2, 3>>
  /\ rm.calls[1] = <<RmSettle("reject", "task failed")>>
  /\ rm.calls[2] = <<RmSettle("reject", "task failed")>>
  /\ rm.calls[3] = <<RmSettle("reject", "task failed")>>
  /\ ~rm.refreshing

\* C14: cancel() sets _cancelled, rejects every waiter queued at the call
\* with 'Refresh cancelled' in the same step, touches no other future,
\* leaves the queue empty and leaves _refreshing and the running task as
\* they were.
C14_Cancel ==
  [][rmLast' = RmLast("cancel", 0) =>
       /\ rm'.cancelled
       /\ rm.waitRejectors = rm.waitResolvers
       /\ \A w \in Callers :
            rm'.calls[w] = IF w \in RangeOf(rm.waitRejectors)
                           THEN Append(rm.calls[w], RmSettle("reject", "Refresh cancelled"))
                           ELSE rm.calls[w]
       /\ rm'.waitResolvers = <<>>
       /\ rm'.waitRejectors = <<>>
       /\ rm'.refreshing = rm.refreshing
       /\ rm'.task = rm.task]_vars

\* cancel() ran while the task of caller 1 was running and caller 2 waited
C14_Witness ==
  /\ rmLast = RmLast("cancel", 0)
  /\ rm.refreshing
  /\ rm.task[1] = "running"
  /\ rm.calls[1] = <<>>
  /\ rm.calls[2] = <<RmSettle("reject", "Refresh cancelled")>>
  /\ rm.waitResolvers = <<>>

\* what reset() must leave alone
RmResetKeeps ==
  rmLast' = RmLast("reset", 0) =>
    /\ ~rm'.cancelled
    /\ rm'.refreshing = rm.refreshing
    /\ rm'.waitResolvers = rm.waitResolvers
    /\ rm'.waitRejectors = rm.waitRejectors
    /\ rm'.calls = rm.calls
    /\ rm'.task = rm.task

\* a call made while _cancelled is true runs no task and queues no waiter
RmCallHasNoEffect ==
  /\ rm'.task = rm.task
  /\ rm'.refreshing = rm.refreshing
  /\ rm'.waitResolvers = rm.waitResolvers
  /\ rm'.waitRejectors = rm.waitRejectors

\* C15 as written: _cancelled stays true until reset(); while it is true
\* every startRefresh and every waitRefresh call is rejected at once, runs
\* no task and queues no waiter, in flight or not; reset() clears only
\* _cancelled.
C15_CancelledFailsEveryCall ==
  [][/\ rm.cancelled => (rm'.cancelled \/ rmLast' = RmLast("reset", 0))
     /\ \A c \in Callers :
          (rm.cancelled /\ rmLast' \in {RmLast("startRefresh", c), RmLast("waitRefresh", c)}) =>
             /\ rm'.calls[c] = <<RmSettle("reject", "Refresh cancelled")>>
             /\ RmCallHasNoEffect
     /\ RmResetKeeps]_vars

\* C15 amended: _cancelled stays true until reset(); while it is true every
\* waitRefresh call is rejected at once, and a startRefresh call is rejected
\* at once when no refresh is in flight but returns resolved with undefined
\* when one is in flight; none of these calls runs a task or queues a
\* waiter; reset() clears only _cancelled.
C15_CancelledSticky ==
  [][/\ rm.cancelled => (rm'.cancelled \/ rmLast' = RmLast("reset", 0))
     /\ \A c \in Callers :
          /\ (rm.cancelled /\ rmLast' = RmLast("waitRefresh", c)) =>
                /\ rm'.calls[c] = <<RmSettle("reject", "Refresh cancelled")>>
                /\ RmCallHasNoEffect
          /\ (rm.cancelled /\ rmLast' = RmLast("startRefresh", c)) =>
                /\ rm'.calls[c] = IF rm.refreshing
                                   THEN <<RmSettle("resolve", "undefined")>>
                                   ELSE <<RmSettle("reject", "Refresh cancelled")>>
                /\ RmCallHasNoEffect
     /\ RmResetKeeps]_vars

\* startRefresh was called after cancel() while the refresh was in flight
C15_Witness ==
  \E c \in Callers :
    /\ rmLast = RmLast("startRefresh", c)
    /\ rm.cancelled
    /\ rm.refreshing
    /\ rm.calls[c] = <<RmSettle("resolve", "undefined")>>
    /\ rm.task[c] = "none"

\* C16: when cancel() was called while the task of a cycle was running and
\* the task then succeeds, the continuation rejects the owner's future and
\* resolves no waiter, whatever calls were made in between.
C16_CancelDiscardsSuccess ==
  [][\A c \in Callers :
       (rmLast' = RmLast("resume", c) /\ rm.task[c] = "ok" /\ c \in rm.cancelSeen) =>
          /\ rm'.calls[c] = <<RmSettle("reject", "Refresh cancelled after completion")>>
          /\ \A w \in Callers \ {c} :
               rm'.calls[w] = rm.calls[w] \/ rm'.calls[w][Len(rm'.calls[w])].fn = "reject"]_vars

\* C25: whenever isRefreshing() is false the waiter queue is empty, after any
\* sequence of startRefresh, waitRefresh, cancel and reset calls.
C25_NoWaiterOutsideCycle ==
  ~rm.refreshing => (rm.waitResolvers = <<>> /\ rm.waitRejectors = <<>>)

\* C29: every waiter that leaves the queue is resolved or rejected in the
\* step that removes it, by cancel(), by the continuation of startRefresh or
\* by its 'cancelled after completion' branch; a queued waiter is unsettled
\* and has both of its callbacks queued.
C29_NoWaiterDiscarded ==
  [][/\ rm.waitRejectors = rm.waitResolvers
     /\ \A w \in RangeOf(rm.waitResolvers) : rm.calls[w] = <<>>
     /\ \A w \in RangeOf(rm.waitResolvers) \ RangeOf(rm'.waitResolvers) :
          /\ Len(rm'.calls[w]) = 1
          /\ rm'.calls[w][1].fn \in {"resolve", "reject"}
     /\ \A c \in Callers :
          (rmLast' = RmLast("resume", c) /\ rm.task[c] = "ok" /\ rm.cancelled) =>
             rm.waitResolvers = <<>>]_vars

\* the 'cancelled after completion' branch ran; the caller that had waited
\* for this cycle was rejected by cancel() when it left the queue
C29_Witness ==
  /\ rmLast = RmLast("resume", 1)
  /\ rm.calls[1] = <<RmSettle("reject", "Refresh cancelled after completion")>>
  /\ rm.kind[2] = "wait"
  /\ rm.calls[2] = <<RmSettle("reject", "Refresh cancelled")>>
  /\ rm.waitResolvers = <<>>

\* -------------------------------------------- RequestCancelManager claims
\* C5: add(url, controller) called in the synchronous turn in which cancelAll
\* ran aborts the controller, registers nothing and leaves getPendingUrls()
\* as it was; a controller that was aborted is never in the registry.
C5_AddInSweepTurn ==
  [][/\ \A k \in Controllers :
          (rcmLast' = RcmLast("add", k) /\ rcm.swept) =>
             /\ k \in rcm'.aborted
             /\ rcm'.pending = rcm.pending
             /\ RequestCancelManager_getPendingUrls(rcm') = RequestCancelManager_getPendingUrls(rcm)
     /\ \A e \in rcm'.pending : e.controller \notin rcm'.aborted]_vars

\* a registered request was swept and a new one tried to add itself in the
\* same turn
C5_Witness ==
  /\ MaxControllers >= 2
  /\ rcmLast = RcmLast("add", 2)
  /\ rcm.swept
  /\ rcm.aborted = {1, 2}
  /\ RequestCancelManager_getPendingUrls(rcm) = {}

\* C20: cancelAll aborts exactly the controllers registered at the call and
\* leaves the registry empty; isCancellingAll() is true for as long as the
\* synchronous turn of a cancelAll lasts; the flag always becomes false
\* again, and an add made while it is false registers its controller and
\* does not abort it.
C20_CancelAll ==
  /\ [][/\ rcmLast' = RcmLast("cancelAll", 0) =>
            /\ rcm'.aborted = rcm.aborted \cup {e.controller : e \in rcm.pending}
            /\ rcm'.pending = {}
            /\ RequestCancelManager_getPendingCount(rcm') = 0
        /\ rcm'.swept => rcm'.isCancelling
        /\ \A k \in Controllers :
             (rcmLast' = RcmLast("add", k) /\ ~rcm.isCancelling) =>
                /\ k \in {e.controller : e \in rcm'.pending}
                /\ k \notin rcm'.aborted]_vars
  /\ (rcm.isCancelling ~> ~rcm.isCancelling)

\* controller 1 was swept by cancelAll; after the flag was reset controller
\* 2 was added and registered
C20_Witness ==
  /\ MaxControllers >= 2
  /\ rcmLast = RcmLast("add", 2)
  /\ rcm.aborted = {1}
  /\ ~rcm.isCancelling
  /\ {e.controller : e \in rcm.pending} = {2}

\* C30: isCancellingAll() stays true from a cancelAll call until the reset
\* scheduled by that call has run: while a scheduled reset is still queued
\* the flag is set, also when an earlier call's reset has run in between.
C30_FlagUntilOwnReset ==
  rcm.resets > 0 => rcm.isCancelling

\* ------------------------------------------------ TransferChannel claims
\* a send() that took an id and whose postMessage did not throw
TcSendPosted(i) ==
  /\ tcLast' = TcLast("send", i)
  /\ i # 0
  /\ i \in tc'.pending

\* what send() itself does to the caller's buffer of length N: clone leaves
\* it at N, transfer leaves it at 0 when send returns, and the worker is
\* handed N bytes
TcSendEffect ==
  \A i \in TcIds :
    TcSendPosted(i) =>
      LET b == tc'.entry[i].buf
          N == tc.bufLen[b]
      IN /\ N = BufferSize
         /\ tc'.bufLen[b] = IF tc'.entry[i].mode = "clone" THEN N ELSE 0
         /\ <<"process", i, N>> \in tc'.posted

TcPostThrew(i) ==
  /\ tcLast' = TcLast("send", i)
  /\ PostThrows(tc, tc'.entry[i].buf)

\* C27: when the post throws inside send(), the send's future is rejected
\* with SEND_FAILED, its timer is cleared, no pending entry for its id
\* remains and nothing was posted; no later timeout or response settles it
\* again.
C27_SendFailed ==
  [][\A i \in TcIds :
       /\ TcPostThrew(i) =>
            /\ tc'.ret = "promise"
            /\ tc'.calls[i] = <<TcReject("SEND_FAILED")>>
            /\ i \notin tc'.timers
            /\ i \notin tc'.pending
            /\ tc'.posted = tc.posted
            /\ tc'.bufLen = tc.bufLen
       /\ tc.calls[i] = <<TcReject("SEND_FAILED")>> =>
            /\ tc'.calls[i] = tc.calls[i]
            /\ i \notin tc'.timers
            /\ i \notin tc'.pending]_vars

\* the buffer went to the worker with send 1 in 'transfer' mode; send 2 of
\* the same buffer failed and the result of send 1 arrived afterwards
C27_Witness ==
  /\ MaxSends >= 2
  /\ tcLast = TcLast("result", 1)
  /\ tc.entry[1] = [mode |-> "transfer", buf |-> 1]
  /\ tc.entry[2].buf = 1
  /\ tc.calls[1] # <<>> /\ tc.calls[1][1].fn = "resolve"
  /\ tc.calls[2] = <<TcReject("SEND_FAILED")>>
  /\ tc.pending = {}
  /\ tc.timers = {}

\* C28: after terminate() every send() is rejected at once with
\* CHANNEL_TERMINATED and takes no request id, registers no entry, arms no
\* timer, posts nothing and leaves the caller's buffers as they are; the
\* message handler ignores every message.
C28_TerminatedChannel ==
  [][tc.isTerminated =>
       /\ tc'.isTerminated
       /\ tcLast'.op = "send" =>
            /\ tcLast'.id = 0
            /\ tc' = [tc EXCEPT !.ret = "rejected:CHANNEL_TERMINATED"]
       /\ \A m \in TcMessages : TransferChannel_handleMessage(tc, m) = tc
       /\ tc'.requestId = tc.requestId
       /\ tc'.pending = {} /\ tc'.timers = {}
       /\ tc'.posted = tc.posted
       /\ tc'.bufLen = tc.bufLen
       /\ tc'.calls = tc.calls
       /\ tc'.readyCalls = tc.readyCalls]_vars

\* send() was called after terminate() had rejected the one pending send;
\* the caller's buffer is still attached
C28_Witness ==
  /\ tcLast = TcLast("send", 0)
  /\ tc.isTerminated
  /\ tc.ret = "rejected:CHANNEL_TERMINATED"
  /\ tc.requestId = 2
  /\ tc.calls[1] = <<TcReject("CHANNEL_TERMINATED")>>
  /\ tc.posted = {<<"init", 0, 0>>, <<"process", 1, BufferSize>>}
  /\ tc.bufLen[1] = BufferSize

\* --------------------------------------------------- demo2 worker claims
\* the compute requests the worker has received
DwComputeTasks(s) == {i \in TaskIds : s.action[i] = "compute"}

\* this step posted a response for the id
DwResponded(i) == dw'.responses[i] # dw.responses[i]

\* C22: a compute request has no response while it runs and exactly one once
\* it has ended; the response is posted by the step in which processCompute
\* returns, with ok = true exactly when the slice just run brought the
\* elapsed time to the total duration and ok = false exactly when the
\* checkpoint found the id removed by a cancel.
C22_OneResponsePerTask ==
  [][\A i \in TaskIds :
       /\ Len(dw'.responses[i]) <= 1
       /\ i \in DwComputeTasks(dw') =>
            /\ (i \in dw'.yielded) = (dw'.responses[i] = <<>>)
            /\ DwResponded(i) =>
                 /\ dw.responses[i] = <<>>
                 /\ dw'.responses[i][1] =
                      (/\ dw'.now - dw'.start[i] >= DurationSlices
                       /\ dw'.progress[i] = dw.progress[i] + 1)
                 /\ (dw'.responses[i][1] = FALSE) =
                      (/\ i \in dw.yielded
                       /\ i \notin dw.activeTasks
                       /\ i \in dw.cancelled
                       /\ dw'.progress[i] = dw.progress[i])]_vars

\* compute task 1 ran to its end and compute task 2 was cancelled
C22_Witness ==
  /\ MaxTasks >= 2
  /\ dw.action[1] = "compute" /\ dw.action[2] = "compute"
  /\ dw.responses[1] = <<TRUE>>
  /\ dw.responses[2] = <<FALSE>>
  /\ dw.yielded = {}

\* the fields of the worker that belong to one task
DwTaskView(s, j) ==
  <<j \in s.activeTasks, j \in s.yielded, s.action[j], s.progress[j], s.responses[j]>>

\* C23: handling a cancel message only removes its id from activeTasks, and
\* changes nothing when the id is not there (finished, already cancelled,
\* instant action); a running task whose id was removed is resumed once
\* more, posts no progress and replies cancelled; neither step touches
\* another task; progress is only posted for an id in activeTasks.
C23_SoftCancel ==
  [][\A i \in TaskIds :
       /\ dwLast' = DwLast("cancel", i) =>
            /\ dw' = [dw EXCEPT !.inbox = Tail(@), !.activeTasks = @ \ {i}]
            /\ i \notin dw.activeTasks =>
                 dw' = [dw EXCEPT !.inbox = Tail(@)]
       /\ (dwLast' = DwLast("timer", i) /\ i \notin dw.activeTasks) =>
            /\ dw'.progress = dw.progress
            /\ dw'.now = dw.now
            /\ dw'.responses[i] = <<FALSE>>
            /\ i \notin dw'.yielded
            /\ \A j \in TaskIds \ {i} : DwTaskView(dw', j) = DwTaskView(dw, j)
       /\ dw'.progress[i] # dw.progress[i] => i \in dw.activeTasks \/ dwLast' = DwLast("request", i)
       /\ (i \in dw.yielded /\ i \notin dw.activeTasks) => i \notin dw'.activeTasks]_vars

\* task 1 was cancelled after its first slice and has replied; task 2 is
\* still running
C23_Witness ==
  /\ MaxTasks >= 2
  /\ dwLast = DwLast("timer", 1)
  /\ dw.responses[1] = <<FALSE>>
  /\ dw.progress[1] = 1
  /\ 2 \in dw.yielded
  /\ 2 \in dw.activeTasks
  /\ dw.responses[2] = <<>>

\* the worker has handled every message it was posted and has posted
\* exactly one response for every request
DwAllAnswered ==
  /\ dw.inbox = <<>>
  /\ \A i \in 1..(dw.nextId - 1) : Len(dw.responses[i]) = 1

\* whatever the main thread posts (finitely many messages), the worker gets
\* through all of it: every compute task posts its response and every
\* queued request or cancel is handled
DwEverythingAnswered == []<>DwAllAnswered

\* C24 as written: under a fair event loop every compute task posts its
\* response, and no compute task finishes while a cancel or an instant
\* request that was posted while it was running is still waiting.
C24_HandledBeforeFinish ==
  /\ DwEverythingAnswered
  /\ [][\A i \in TaskIds :
          (i \in dw.yielded /\ DwResponded(i)) =>
             \A k \in 1..Len(dw.inbox) :
               (i \in dw.inbox[k].during) =>
                  ~(dw.inbox[k].type = "cancel" \/ dw.inbox[k].action = "echo")]_vars

\* C24 amended: no callback of the worker runs more than one slice before
\* it returns to the event loop, so a queued message can be handled between
\* any two slices; under a fair event loop every compute task posts its
\* response and every queued cancel or request is handled.
C24_YieldsEverySlice ==
  /\ DwEverythingAnswered
  /\ [][dw'.now <= dw.now + 1]_vars

\* an instant request was answered while compute task 1, which had started
\* before, was still running
C24_Witness ==
  /\ MaxTasks >= 2
  /\ dwLast = DwLast("request", 2)
  /\ dw.action[1] = "compute"
  /\ 1 \in dw.yielded
  /\ dw.responses[1] = <<>>
  /\ dw.action[2] = "echo"
  /\ dw.responses[2] = <<TRUE>>

\* ------------------------------------------------------ interceptor claims
\* the calls whose first dispatch carried the initial access token and was
\* answered with 401
FirstAnswered401 ==
  {c \in HttpCalls : /\ http.attempts[c] # <<>>
                     /\ http.attempts[c][1].token = 0
                     /\ http.attempts[c][1].status = 401}

\* the refresh POSTs made by the error callback of a call's first dispatch
PostsForFirstAnswers ==
  {i \in 1..Len(http.posts) : http.posts[i].by \in FirstAnswered401 /\ http.posts[i].attempt = 1}

\* C17: when all K calls were sent with the same expired token and each was
\* answered with 401, the error callbacks of these K answers have made
\* exactly one POST to the refresh endpoint, whatever the order of the
\* answers and the refresh response.
C17_OneRefreshPerBurst ==
  FirstAnswered401 = HttpCalls => Cardinality(PostsForFirstAnswers) = 1

\* C18: no call is handed to the network more than twice (the original
\* dispatch and one retry) and no call causes more than one refresh POST.
C18_RetryOnce ==
  \A c \in HttpCalls :
    /\ Len(http.attempts[c]) <= 2
    /\ Cardinality({i \in 1..Len(http.posts) : http.posts[i].by = c}) <= 1

\* C19: when every call that was issued has settled (nobody having called
\* cancelAll), getPendingCount() is 0 and getPendingUrls() is empty.
C19_RegistryEmptyWhenSettled ==
  (/\ \E c \in HttpCalls : http.phase[c] # "idle"
   /\ \A c \in HttpCalls : http.phase[c] \in {"idle", "settled"}) =>
     /\ RequestCancelManager_getPendingCount(rcm) = 0
     /\ RequestCancelManager_getPendingUrls(rcm) = {}

====
